---- MODULE Spec2Model ----
(***************************************************************************)
(* Financial Command Center (src/app.py): the projection, milestone and    *)
(* Monte Carlo functions and the report run that calls them.               *)
(*                                                                         *)
(* Numbers.  Python floats are modelled as a binary floating-point format  *)
(* with a MantBits-bit significand whose smallest step (the quantum) is    *)
(* 1/Cent of a euro cent: a value is an integer count of quanta, every     *)
(* arithmetic operation computes the exact result and rounds it to the     *)
(* nearest representable value, ties to even, as IEEE-754 does.  Rates are *)
(* exact multiples of 1/RateDen.  Annual percentages are counted in tenths *)
(* of a percent (75 is 7.5 %).                                             *)
(***************************************************************************)
EXTENDS Integers, Sequences, FiniteSets, TLC

\* ------------------------------------------------------------------ bounds
MantBits == 20
Cent == 10
RateDen == 10000
MaxYears == 2

Euro == 100 * Cent

\* ------------------------------------------------------- float arithmetic
Abs(x) == IF x < 0 THEN -x ELSE x

RECURSIVE Pow2(_)
Pow2(e) == IF e = 0 THEN 1 ELSE 2 * Pow2(e - 1)

\* The spacing of representable values around a magnitude of a quanta.
RECURSIVE Ulp(_)
Ulp(a) == IF a < Pow2(MantBits) THEN 1 ELSE 2 * Ulp(a \div 2)

\* The multiple of step nearest to i + f/den (0 <= f < den), ties to the even
\* multiple.
RoundStep(i, f, den, step) ==
    LET k    == i \div step
        rem2 == 2 * ((i % step) * den + f)
        full == step * den
    IN  IF rem2 < full THEN k * step
        ELSE IF rem2 > full THEN (k + 1) * step
        ELSE IF k % 2 = 0 THEN k * step ELSE (k + 1) * step

\* The representable value nearest to the exact value i + f/den.
Fl(i, f, den) ==
    LET mag == IF i >= 0 THEN i ELSE IF f = 0 THEN -i ELSE -i - 1
    IN  RoundStep(i, f, den, Ulp(mag))

\* float(x) of an exact integer amount.
ToFloat(x) == Fl(x, 0, 1)

\* a + b in floating point.
FAdd(a, b) == Fl(a + b, 0, 1)

\* v * (1 + r) in floating point, r = rate/RateDen.  The exact product is
\* v + v*rate/RateDen, computed without forming v*rate.
FMulRate(v, rate) ==
    LET av  == Abs(v)
        ar  == Abs(rate)
        q   == (av \div RateDen) * ar + ((av % RateDen) * ar) \div RateDen
        g   == ((av % RateDen) * ar) % RateDen
        neg == (v < 0) # (rate < 0)
        pi  == IF ~neg THEN q ELSE IF g = 0 THEN -q ELSE -q - 1
        pf  == IF ~neg \/ g = 0 THEN g ELSE RateDen - g
    IN  Fl(v + pi, pf, RateDen)

\* round(x, 2): the nearest whole number of cents, as a float.
Round2(x) == ToFloat(RoundStep(x, 0, 1, Cent))

\* ---------------------------------------------------------- rate conversion
\* Exact natural numbers of any size, as sequences of digits in base BigBase,
\* least significant first, without leading zeros (zero is <<>>).
BigBase == 1000

RECURSIVE BigMulC(_, _, _)
BigMulC(n, q, carry) ==
    IF n = <<>>
    THEN IF carry = 0 THEN <<>>
         ELSE <<carry % BigBase>> \o BigMulC(<<>>, q, carry \div BigBase)
    ELSE LET t == Head(n) * q + carry
         IN  <<t % BigBase>> \o BigMulC(Tail(n), q, t \div BigBase)

BigMul(n, q) == IF q = 0 THEN <<>> ELSE BigMulC(n, q, 0)

RECURSIVE BigPow(_, _)
BigPow(q, k) == IF k = 0 THEN <<1>> ELSE BigMul(BigPow(q, k - 1), q)

RECURSIVE BigLeqFrom(_, _, _)
BigLeqFrom(a, b, i) ==
    IF i = 0 THEN TRUE
    ELSE IF a[i] # b[i] THEN a[i] < b[i]
    ELSE BigLeqFrom(a, b, i - 1)

BigLeq(a, b) ==
    IF Len(a) # Len(b) THEN Len(a) < Len(b) ELSE BigLeqFrom(a, b, Len(a))

\* (1 + r/RateDen)^12 <= 1 + annual/1000, exactly.
RateFits(r, annual) ==
    BigLeq(BigMul(BigPow(RateDen + r, 12), 1000),
           BigMul(BigPow(RateDen, 12), 1000 + annual))

RECURSIVE RateSearch(_, _, _)
RateSearch(lo, hi, annual) ==
    IF hi - lo <= 1 THEN lo
    ELSE LET mid == (lo + hi) \div 2
         IN  IF RateFits(mid, annual) THEN RateSearch(mid, hi, annual)
             ELSE RateSearch(lo, mid, annual)

\* r = (1 + annual_return / 100) ** (1 / 12) - 1 in units of 1/RateDen,
\* rounded down; annual_return in tenths of a percent, at least -100 %.
MonthlyRate(annual) == RateSearch(-RateDen, 4 * RateDen, annual)

VARIABLES
    cp_pc,      \* compute_projection: "idle", "loop" or "done"
    cp_args,    \* its arguments
    cp_r,       \* its local r
    cp_vals,    \* its list vals
    em_pc,      \* estimate_months: "idle", "loop" or "done"
    em_args,    \* its arguments
    em_r,       \* its local r
    em_v,       \* its local v
    em_m,       \* its local m
    em_ret,     \* the value it returned
    em_prev,    \* the arguments and the result of the call before
    mc_pc,      \* run_monte_carlo: "idle", "loop", "done" or "raised"
    mc_args,    \* its arguments
    mc_rng,     \* the state of its generator rng
    mc_returns, \* its matrix returns, one row per path
    mc_scen,    \* its matrix scenarios, one row per path
    mc_m,       \* its loop index m
    mc_ret,     \* the pair it returned
    mc_prev,    \* the arguments and the result of the call before
    mc_cached,  \* st.cache_data still holds the result of the last call
    run_pc,         \* the report script: the stage it has reached
    run_error,      \* the exception that stopped it
    patrimonio,     \* the accounts, in the order of the dict
    fetch_cache,    \* st.cache_data of fetch_etf_prices
    prezzi_etf,     \* the resolved value of every ETF position
    issues,         \* the diagnostics of fetch_etf_prices
    controls,       \* contributo, rendimento, extra, volatilita, contrib_totale
    totals,         \* net_worth, liquidita, investimenti, risparmio, tfr
    ms_i,           \* the milestone the loop is at
    ms_bars,        \* the progress bars rendered so far
    mc_stats,       \* the Monte Carlo stage: probabilities and percentiles
    fe_args,        \* fetch_etf_prices called alone: its arguments
    fe_ret          \* and the pair it returned

cpVars == <<cp_pc, cp_args, cp_r, cp_vals>>
emVars == <<em_pc, em_args, em_r, em_v, em_m, em_ret, em_prev>>

mcVars == <<mc_pc, mc_args, mc_rng, mc_returns, mc_scen, mc_m, mc_ret, mc_prev,
            mc_cached>>

runVars == <<run_pc, run_error, patrimonio, fetch_cache, prezzi_etf, issues,
             controls, totals, ms_i, ms_bars>>

fnVars == <<mc_stats, fe_args, fe_ret>>

vars == <<cpVars, emVars, mcVars, runVars, fnVars>>

NoArgs == [none |-> TRUE]
NoResult == [none |-> TRUE]
None == "None"

\* -------------------------------------------------------- compute_projection
CpIdle ==
    /\ cp_pc = "idle"
    /\ cp_args = NoArgs
    /\ cp_r = 0
    /\ cp_vals = <<>>

\* def compute_projection(initial, monthly, annual_return, years=30): the
\* rate and the list holding the initial value.
CpCall(initial, monthly, annual_return, years) ==
    /\ cp_pc = "idle"
    /\ cp_args' = [initial |-> initial, monthly |-> monthly,
                   annual_return |-> annual_return, years |-> years]
    /\ cp_r' = MonthlyRate(annual_return)
    /\ cp_vals' = <<initial>>
    /\ cp_pc' = "loop"

\* Mutants of CpNext: the value is appended unrounded; the contribution is
\* subtracted.
CpNextUnrounded(last, r, monthly) == FAdd(FMulRate(last, r), monthly)
CpNextMinus(last, r, monthly) == Round2(FAdd(FMulRate(last, r), -monthly))

\* The value one pass of the loop appends:
\* round(vals[-1] * (1 + r) + monthly, 2).
CpNext(last, r, monthly) == Round2(FAdd(FMulRate(last, r), monthly))

\* for _ in range(years * 12): vals.append(...)
CpStep ==
    /\ cp_pc = "loop"
    /\ Len(cp_vals) - 1 < cp_args.years * 12
    /\ cp_vals' = Append(cp_vals, CpNext(cp_vals[Len(cp_vals)], cp_r, cp_args.monthly))
    /\ UNCHANGED <<cp_pc, cp_args, cp_r>>

\* return vals
CpReturn ==
    /\ cp_pc = "loop"
    /\ Len(cp_vals) - 1 >= cp_args.years * 12
    /\ cp_pc' = "done"
    /\ UNCHANGED <<cp_args, cp_r, cp_vals>>

\* ----------------------------------------------------------- estimate_months
MaxMonths == 1200

EmIdle ==
    /\ em_pc = "idle"
    /\ em_args = NoArgs
    /\ em_r = 0
    /\ em_v = 0
    /\ em_m = 0
    /\ em_ret = None
    /\ em_prev = NoResult

\* The call just finished, as the next call finds it.
EmLast ==
    IF em_pc = "done" THEN [args |-> em_args, ret |-> em_ret] ELSE em_prev

\* def estimate_months(initial, target, monthly, annual_return): r, v and m.
EmCall(initial, target, monthly, annual_return) ==
    /\ em_args' = [initial |-> initial, target |-> target, monthly |-> monthly,
                   annual_return |-> annual_return]
    /\ em_r' = MonthlyRate(annual_return)
    /\ em_v' = ToFloat(initial)
    /\ em_m' = 0
    /\ em_ret' = None
    /\ em_prev' = EmLast
    /\ em_pc' = "loop"

\* Mutants of EmContinue: the cap is tested with <=; the loop body runs once
\* before the first test; the value is compared with the target the other
\* way round.
EmContinueOffByOne(v, target, m) == v < target /\ m <= MaxMonths
EmContinueDoWhile(v, target, m) == m = 0 \/ (v < target /\ m < MaxMonths)
EmContinueReversed(v, target, m) == v > target /\ m < MaxMonths

\* while v < target and m < 1200
EmContinue(v, target, m) == v < target /\ m < MaxMonths

\* v = v * (1 + r) + monthly; m += 1
EmStep ==
    /\ em_pc = "loop"
    /\ EmContinue(em_v, em_args.target, em_m)
    /\ em_v' = FAdd(FMulRate(em_v, em_r), em_args.monthly)
    /\ em_m' = em_m + 1
    /\ UNCHANGED <<em_pc, em_args, em_r, em_ret, em_prev>>

\* return m
EmReturn ==
    /\ em_pc = "loop"
    /\ ~EmContinue(em_v, em_args.target, em_m)
    /\ em_ret' = em_m
    /\ em_pc' = "done"
    /\ UNCHANGED <<em_args, em_r, em_v, em_m, em_prev>>

\* ----------------------------------------------------------- run_monte_carlo
RECURSIVE ISqrtSearch(_, _, _)
ISqrtSearch(lo, hi, x) ==
    IF hi - lo <= 1 THEN lo
    ELSE LET mid == (lo + hi) \div 2
         IN  IF mid * mid <= x THEN ISqrtSearch(mid, hi, x)
             ELSE ISqrtSearch(lo, mid, x)

ISqrt(x) == ISqrtSearch(0, 46341, x)

\* r_m = (annual_return / 100) / 12, in units of 1/RateDen.
MeanMonthly(annual) == (RateDen * annual) \div 12000

\* vol_m = (annual_vol / 100) / np.sqrt(12), in units of 1/RateDen.
VolMonthly(vol) ==
    LET v == (RateDen * vol) \div 1000 IN ISqrt((v * v) \div 12)

\* The generator: a congruential generator of period 16 stands for PCG64.
RngNext(s) == (5 * s + 3) % 16

RECURSIVE RngSteps(_, _)
RngSteps(s, k) == IF k = 0 THEN s ELSE RngNext(RngSteps(s, k - 1))

\* The state after k draws; the generator is back in its state after 16.
RngIter(s, k) == RngSteps(s, k % 16)

\* The standard normal deviate drawn in generator state s: -2 .. 2.
ZOf(s) == (s % 5) - 2

\* Mutant of RngSeed: the generator goes on from the state the generator of
\* the call before was left in.
RngSeedCarried(seed, leftover) == leftover

\* rng = np.random.default_rng(seed): a new generator whose state is set by
\* the seed alone, whatever state an earlier generator was left in.
RngSeed(seed, leftover) == seed % 16

\* returns = rng.normal(r_m, vol_m, size=(sims, n)): the matrix is filled row
\* by row from the generator's successive states.
NormalMatrix(s0, r_m, vol_m, sims, n) ==
    [p \in 1..sims |->
        [t \in 1..n |-> r_m + vol_m * ZOf(RngIter(s0, (p - 1) * n + t))]]

\* np.maximum(x, 0)
FloorAtZero(x) == IF x < 0 THEN 0 ELSE x

McIdle ==
    /\ mc_pc = "idle"
    /\ mc_args = NoArgs
    /\ mc_rng = 0
    /\ mc_returns = <<>>
    /\ mc_scen = <<>>
    /\ mc_m = 0
    /\ mc_ret = NoResult
    /\ mc_prev = NoResult
    /\ mc_cached = FALSE

\* The call just finished, as the next call finds it.
McLast ==
    IF mc_pc = "done" THEN [args |-> mc_args, ret |-> mc_ret] ELSE mc_prev

\* st.cache_data returns the stored result of a call with these arguments.
McCacheHolds(args) == mc_pc = "done" /\ mc_cached /\ args = mc_args

\* def run_monte_carlo(initial, monthly, annual_return, annual_vol, years,
\* sims, seed), up to the loop: the generator, n, r_m, vol_m, the matrix of
\* returns and the matrix of scenarios with column 0 set to initial.
McCall(args) ==
    /\ mc_pc \in {"idle", "done", "raised"}
    /\ ~McCacheHolds(args)
    /\ args.sims >= 0 /\ args.years >= 0
    /\ LET n   == args.years * 12
           s0  == RngSeed(args.seed, mc_rng)
       IN  /\ mc_rng' = RngIter(s0, args.sims * n)
           /\ mc_returns' = NormalMatrix(s0, MeanMonthly(args.annual_return),
                                         VolMonthly(args.annual_vol), args.sims, n)
           /\ mc_scen' = [p \in 1..args.sims |->
                            [t \in 1..(n + 1) |->
                                IF t = 1 THEN args.initial ELSE 0]]
    /\ mc_args' = args
    /\ mc_m' = 0
    /\ mc_ret' = NoResult
    /\ mc_prev' = McLast
    /\ mc_cached' = FALSE
    /\ mc_pc' = "loop"

\* rng.normal raises ValueError for a negative dimension.
McCallRaises(args) ==
    /\ mc_pc \in {"idle", "done", "raised"}
    /\ ~McCacheHolds(args)
    /\ args.sims < 0 \/ args.years < 0
    /\ mc_args' = args
    /\ mc_rng' = RngSeed(args.seed, mc_rng)
    /\ mc_returns' = <<>>
    /\ mc_scen' = <<>>
    /\ mc_m' = 0
    /\ mc_ret' = NoResult
    /\ mc_prev' = McLast
    /\ mc_cached' = FALSE
    /\ mc_pc' = "raised"

\* The call is answered from the cache: the body does not run.
McCallCached(args) ==
    /\ McCacheHolds(args)
    /\ mc_prev' = McLast
    /\ UNCHANGED <<mc_pc, mc_args, mc_rng, mc_returns, mc_scen, mc_m, mc_ret,
                   mc_cached>>

\* ttl=3600: the stored result expires.
McExpire ==
    /\ mc_cached
    /\ mc_cached' = FALSE
    /\ UNCHANGED <<mc_pc, mc_args, mc_rng, mc_returns, mc_scen, mc_m, mc_ret,
                   mc_prev>>

\* One month of one path:
\* np.maximum(scenarios[:, m] * (1 + returns[:, m]) + monthly, 0).
McNext(value, ret, monthly) == FloorAtZero(FAdd(FMulRate(value, ret), monthly))

\* for m in range(n): scenarios[:, m + 1] = ..., every path at once.
McStep ==
    /\ mc_pc = "loop"
    /\ mc_m < mc_args.years * 12
    /\ mc_scen' = [p \in 1..mc_args.sims |->
                     [mc_scen[p] EXCEPT ![mc_m + 2] =
                         McNext(mc_scen[p][mc_m + 1], mc_returns[p][mc_m + 1],
                                mc_args.monthly)]]
    /\ mc_m' = mc_m + 1
    /\ UNCHANGED <<mc_pc, mc_args, mc_rng, mc_returns, mc_ret, mc_prev, mc_cached>>

\* return scenarios, scenarios[:, -1]
McReturn ==
    /\ mc_pc = "loop"
    /\ mc_m >= mc_args.years * 12
    /\ mc_ret' = [scenarios |-> mc_scen,
                  final |-> [p \in 1..mc_args.sims |-> mc_scen[p][Len(mc_scen[p])]]]
    /\ mc_cached' = TRUE
    /\ mc_pc' = "done"
    /\ UNCHANGED <<mc_args, mc_rng, mc_returns, mc_scen, mc_m, mc_prev>>

\* ---------------------------------------------------------------- the data
\* An amount of euros and cents, in quanta.
Eur(euros, cents) == (euros * 100 + cents) * Cent

\* patrimonio: the accounts, in the order of the dict.
Patrimonio0 ==
    << [name |-> "Postepay Evolution", saldo |-> Eur(1000, 0),  tipo |-> "Liquidita"],
       [name |-> "Buddybank",          saldo |-> Eur(400, 0),   tipo |-> "Liquidita"],
       [name |-> "Revolut",            saldo |-> Eur(3000, 0),  tipo |-> "Liquidita"],
       [name |-> "Isybank",            saldo |-> Eur(700, 0),   tipo |-> "Liquidita"],
       [name |-> "Contanti",           saldo |-> Eur(2500, 0),  tipo |-> "Liquidita"],
       [name |-> "Degiro",             saldo |-> Eur(0, 0),     tipo |-> "Investimento"],
       [name |-> "Scalable Capital",   saldo |-> Eur(50, 0),    tipo |-> "Investimento"],
       [name |-> "Bondora",            saldo |-> Eur(4400, 0),  tipo |-> "Investimento"],
       [name |-> "Buono Fruttifero",   saldo |-> Eur(14000, 0), tipo |-> "Risparmio"],
       [name |-> "TFR Lavoro",         saldo |-> Eur(2000, 0),  tipo |-> "TFR"] >>

\* etf_data: the positions, in the order of the dict.
EtfData ==
    << [name |-> "Vanguard S&P 500", ticker |-> "VUSA.AS", quote |-> 64,
        backup |-> Eur(7099, 7), fx_ticker |-> None],
       [name |-> "VanEck Semiconductor", ticker |-> None, quote |-> 23,
        backup |-> Eur(1423, 2), fx_ticker |-> None],
       [name |-> "Vanguard High Div Yield", ticker |-> "VHYL.AS", quote |-> 14,
        backup |-> Eur(1068, 3), fx_ticker |-> None],
       [name |-> "Xtrackers AI & Big Data", ticker |-> "XAIX.DE", quote |-> 7,
        backup |-> Eur(1066, 24), fx_ticker |-> None],
       [name |-> "iShares Physical Gold", ticker |-> "IGLN.L", quote |-> 6,
        backup |-> Eur(503, 26), fx_ticker |-> "GBPEUR=X"],
       [name |-> "iShares Global Agg Bond", ticker |-> "AGGH.AS", quote |-> 100,
        backup |-> Eur(498, 31), fx_ticker |-> None],
       [name |-> "iShares MSCI China A", ticker |-> "CNYA.AS", quote |-> 60,
        backup |-> Eur(307, 6), fx_ticker |-> None] >>

\* milestones
Milestones ==
    << [nome |-> "50k",  target |-> Eur(50000, 0)],
       [nome |-> "100k", target |-> Eur(100000, 0)],
       [nome |-> "400k", target |-> Eur(400000, 0)],
       [nome |-> "1M",   target |-> Eur(1000000, 0)] >>

\* ----------------------------------------------------------- fetch_etf_prices
Tickers(etf) == {etf[i].ticker : i \in 1..Len(etf)} \ {None}
FxTickers(etf) == {etf[i].fx_ticker : i \in 1..Len(etf)} \ {None}
AllTickers(etf) == Tickers(etf) \cup FxTickers(etf)

NoClose == [ok |-> FALSE, px |-> 0]
Close(px) == [ok |-> TRUE, px |-> px]

\* a * b in floating point, b a whole number.
FMulInt(a, b) == Fl(a * b, 0, 1)

\* The fallback of both early returns: every position at its backup value.
AllBackups(etf) ==
    [i \in 1..Len(etf) |-> [name |-> etf[i].name, value |-> ToFloat(etf[i].backup)]]

Issue(name, what) == [name |-> name, what |-> what]

\* Mutant of ResolveOne: a position without a ticker is valued 0 and any
\* other at its backup.
ResolveOneNoBackup(d, close) ==
    [value |-> IF d.ticker = None THEN 0 ELSE ToFloat(d.backup), issues |-> <<>>]

\* One pass of the loop over the positions: the value of position d and the
\* diagnostics it adds.  close maps a ticker to its last close; an FX rate is a
\* multiple of 1/RateDen.
ResolveOne(d, close) ==
    LET backup == ToFloat(d.backup)
        shares == d.quote
    IN  IF d.ticker = None
        THEN [value |-> backup,
              issues |-> IF backup > 0 THEN <<Issue(d.name, "no ticker")>> ELSE <<>>]
        ELSE IF ~close[d.ticker].ok
        THEN [value |-> backup, issues |-> <<Issue(d.name, "prezzo N/A")>>]
        ELSE
            LET fxKnown == d.fx_ticker # None /\ close[d.fx_ticker].ok
                fxMiss  == d.fx_ticker # None /\ ~close[d.fx_ticker].ok
                fx      == IF fxKnown THEN close[d.fx_ticker].px ELSE RateDen
                value   == Round2(FMulRate(FMulInt(ToFloat(close[d.ticker].px), shares),
                                           fx - RateDen))
                odd     == backup > 0 /\ (5 * value > 9 * backup \/ 20 * value < 11 * backup)
            IN  [value |-> value,
                 issues |-> (IF fxMiss THEN <<Issue(d.name, "FX N/A")>> ELSE <<>>)
                            \o (IF odd THEN <<Issue(d.name, "valore anomalo")>> ELSE <<>>)]

RECURSIVE ResolveIssues(_, _, _)
ResolveIssues(etf, close, i) ==
    IF i > Len(etf) THEN <<>>
    ELSE ResolveOne(etf[i], close).issues \o ResolveIssues(etf, close, i + 1)

\* def fetch_etf_prices(etf_dict): download is what yf.download did, an
\* exception or the last close of every ticker it has data for.
FetchEtfPrices(etf, download) ==
    IF AllTickers(etf) = {}
    THEN [results |-> AllBackups(etf), issues |-> <<Issue("", "Nessun ticker")>>]
    ELSE IF download.raised
    THEN [results |-> AllBackups(etf), issues |-> <<Issue("", "Download fallito")>>]
    ELSE [results |-> [i \in 1..Len(etf) |->
                          [name |-> etf[i].name,
                           value |-> ResolveOne(etf[i], download.close).value]],
          issues |-> ResolveIssues(etf, download.close, 1)]

\* ------------------------------------------------------------ the report run
\* sum(...) of floats, from the left.
RECURSIVE PySum(_, _)
PySum(xs, n) == IF n = 0 THEN 0 ELSE FAdd(PySum(xs, n - 1), xs[n])

SumAll(xs) == PySum(xs, Len(xs))

Values(results) == [i \in 1..Len(results) |-> results[i].value]

\* [v["saldo"] for v in patrimonio.values() if v["tipo"] == tipo]
RECURSIVE SaldiOf(_, _, _)
SaldiOf(patr, tipo, i) ==
    IF i > Len(patr) THEN <<>>
    ELSE (IF patr[i].tipo = tipo THEN <<patr[i].saldo>> ELSE <<>>)
         \o SaldiOf(patr, tipo, i + 1)

Saldi(patr) == [i \in 1..Len(patr) |-> patr[i].saldo]

\* Mutant of WithDegiro: the total lands on the account after Degiro.
WithDegiroMisplaced(patr, totale) ==
    [i \in 1..Len(patr) |->
        IF patr[i].name = "Scalable Capital"
        THEN [patr[i] EXCEPT !.saldo = totale] ELSE patr[i]]

\* patrimonio["Degiro"]["saldo"] = totale_degiro
WithDegiro(patr, totale) ==
    [i \in 1..Len(patr) |->
        IF patr[i].name = "Degiro"
        THEN [patr[i] EXCEPT !.saldo = totale] ELSE patr[i]]

NoControls == [none |-> TRUE]
NoTotals == [none |-> TRUE]

RunStart ==
    /\ run_pc = "start"
    /\ run_error = None
    /\ patrimonio = Patrimonio0
    /\ prezzi_etf = <<>>
    /\ issues = <<>>
    /\ controls = NoControls
    /\ totals = NoTotals
    /\ ms_i = 0
    /\ ms_bars = <<>>

FnIdle ==
    /\ mc_stats = NoResult
    /\ fe_args = NoArgs
    /\ fe_ret = NoResult

RunInit == RunStart /\ fetch_cache = NoResult /\ FnIdle

\* LOAD DATA with the answer of fetch_etf_prices.
Loaded(res) ==
    /\ prezzi_etf' = res.results
    /\ issues' = res.issues
    /\ patrimonio' = WithDegiro(patrimonio, SumAll(Values(res.results)))
    /\ run_pc' = "loaded"
    /\ UNCHANGED <<run_error, controls, totals, ms_i, ms_bars>>

\* LOAD DATA: fetch_etf_prices runs and its result is stored by st.cache_data.
LoadData(download) ==
    /\ run_pc = "start"
    /\ fetch_cache = NoResult
    /\ LET res == FetchEtfPrices(EtfData, download)
       IN  Loaded(res) /\ fetch_cache' = res

\* LOAD DATA: fetch_etf_prices is answered from the cache.
LoadDataCached ==
    /\ run_pc = "start"
    /\ fetch_cache # NoResult
    /\ Loaded(fetch_cache)
    /\ UNCHANGED fetch_cache

\* ttl=3600: the stored prices expire.  The cache is read at the top of a run
\* only, so the expiry is placed between two runs.
FetchExpire ==
    /\ run_pc = "aborted"
    /\ fetch_cache # NoResult
    /\ fetch_cache' = NoResult
    /\ UNCHANGED <<run_pc, run_error, patrimonio, prezzi_etf, issues, controls,
                   totals, ms_i, ms_bars>>

\* render_controls: the four sliders; total = cm + ed.
RenderControls(cm, ed, ra, va) ==
    /\ run_pc = "loaded"
    /\ controls' = [contributo |-> ToFloat(cm), rendimento |-> ra,
                    extra |-> ToFloat(ed), volatilita |-> va,
                    contrib_totale |-> ToFloat(cm + ed)]
    /\ run_pc' = "controls"
    /\ UNCHANGED <<run_error, patrimonio, fetch_cache, prezzi_etf, issues, totals,
                   ms_i, ms_bars>>

\* CALCULATIONS
Calculations ==
    /\ run_pc = "controls"
    /\ totals' = [net_worth    |-> SumAll(Saldi(patrimonio)),
                  liquidita    |-> SumAll(SaldiOf(patrimonio, "Liquidita", 1)),
                  investimenti |-> SumAll(SaldiOf(patrimonio, "Investimento", 1)),
                  risparmio    |-> SumAll(SaldiOf(patrimonio, "Risparmio", 1)),
                  tfr          |-> SumAll(SaldiOf(patrimonio, "TFR", 1))]
    /\ ms_i' = 1
    /\ run_pc' = "milestones"
    /\ UNCHANGED <<run_error, patrimonio, fetch_cache, prezzi_etf, issues, controls,
                   ms_bars>>

\* for m in milestones: mesi = estimate_months(net_worth, m["target"],
\* contrib_totale, rendimento)
MilestoneCall ==
    /\ run_pc = "milestones"
    /\ ms_i <= Len(Milestones)
    /\ EmCall(totals.net_worth, Milestones[ms_i].target, controls.contrib_totale,
              controls.rendimento)
    /\ run_pc' = "estimating"
    /\ UNCHANGED <<run_error, patrimonio, fetch_cache, prezzi_etf, issues, controls,
                   totals, ms_i, ms_bars>>

\* The bottom line of a progress bar: anni = mesi // 12, mesi_rest = mesi % 12
\* and data_stima, the month that lies mesi months after today; the line is
\* "~{anni}a {mesi_rest}m -> {data_stima}" whatever mesi is.
RenderBar(m, mesi) ==
    [nome |-> m.nome, target |-> m.target, line |-> "time remaining",
     anni |-> mesi \div 12, mesi_rest |-> mesi % 12, data_stima |-> mesi]

\* The rest of the loop body: the bar of this milestone is rendered.
MilestoneRender ==
    /\ run_pc = "estimating"
    /\ em_pc = "done"
    /\ ms_bars' = Append(ms_bars, RenderBar(Milestones[ms_i], em_ret))
    /\ ms_i' = ms_i + 1
    /\ run_pc' = "milestones"
    /\ UNCHANGED <<run_error, patrimonio, fetch_cache, prezzi_etf, issues, controls,
                   totals>>

\* The parameters of compute_projection and the keyword the report passes its
\* horizon by.
CpParams == {"initial", "monthly", "annual_return", "years"}
ProjectionKeyword == "anni"

\* proiezione = compute_projection(net_worth, contrib_totale, rendimento,
\* anni=30): the keyword is no parameter of the function, the call raises
\* TypeError and the script stops.
ProjectionStage ==
    /\ run_pc = "milestones"
    /\ ms_i > Len(Milestones)
    /\ ProjectionKeyword \notin CpParams
    /\ run_error' = "TypeError"
    /\ run_pc' = "aborted"
    /\ UNCHANGED <<patrimonio, fetch_cache, prezzi_etf, issues, controls, totals,
                   ms_i, ms_bars>>

\* Streamlit runs the script again from the top: every name is bound anew,
\* only the caches live on.
Rerun ==
    /\ run_pc = "aborted"
    /\ run_pc' = "start"
    /\ run_error' = None
    /\ patrimonio' = Patrimonio0
    /\ prezzi_etf' = <<>>
    /\ issues' = <<>>
    /\ controls' = NoControls
    /\ totals' = NoTotals
    /\ ms_i' = 0
    /\ ms_bars' = <<>>
    /\ em_pc' = "idle"
    /\ em_args' = NoArgs
    /\ em_r' = 0
    /\ em_v' = 0
    /\ em_m' = 0
    /\ em_ret' = None
    /\ em_prev' = NoResult
    /\ UNCHANGED fetch_cache

\* What yf.download can answer: an exception, no data, the prices of an
\* ordinary day with and without the FX rate, and a feed whose close for
\* VUSA.AS is negative.
CloseOf(px) == [t \in AllTickers(EtfData) |-> IF t \in DOMAIN px THEN Close(px[t]) ELSE NoClose]

OrdinaryDay ==
    [t \in Tickers(EtfData) |->
        CASE t = "VUSA.AS" -> 110920
          [] t = "VHYL.AS" -> 76290
          [] t = "XAIX.DE" -> 152320
          [] t = "IGLN.L"  -> 71700
          [] t = "AGGH.AS" -> 4980
          [] t = "CNYA.AS" -> 5120]

Prices(px) == [t \in DOMAIN px |-> (px[t] * Cent) \div 10]

Downloads ==
    { [raised |-> TRUE, close |-> CloseOf(<<>>)],
      [raised |-> FALSE, close |-> CloseOf(<<>>)],
      [raised |-> FALSE, close |-> CloseOf(Prices(OrdinaryDay))],
      [raised |-> FALSE,
       close |-> CloseOf(Prices(OrdinaryDay) @@ ("GBPEUR=X" :> (117 * RateDen) \div 100))],
      [raised |-> FALSE, close |-> CloseOf("VUSA.AS" :> -320 * Euro)] }

SliderContributo == {100 * Euro, 600 * Euro}
SliderExtra == {0}
SliderRendimento == {30, 75}
SliderVolatilita == {140}

Init == CpIdle /\ EmIdle /\ McIdle /\ RunInit

Next ==
    \/ (\E download \in Downloads : LoadData(download))
            /\ UNCHANGED <<cpVars, emVars, mcVars, fnVars>>
    \/ LoadDataCached /\ UNCHANGED <<cpVars, emVars, mcVars, fnVars>>
    \/ FetchExpire /\ UNCHANGED <<cpVars, emVars, mcVars, fnVars>>
    \/ (\E cm \in SliderContributo, ed \in SliderExtra,
           ra \in SliderRendimento, va \in SliderVolatilita :
            RenderControls(cm, ed, ra, va))
            /\ UNCHANGED <<cpVars, emVars, mcVars, fnVars>>
    \/ Calculations /\ UNCHANGED <<cpVars, emVars, mcVars, fnVars>>
    \/ MilestoneCall /\ UNCHANGED <<cpVars, mcVars, fnVars>>
    \/ EmStep /\ UNCHANGED <<cpVars, mcVars, runVars, fnVars>>
    \/ EmReturn /\ UNCHANGED <<cpVars, mcVars, runVars, fnVars>>
    \/ MilestoneRender /\ UNCHANGED <<cpVars, emVars, mcVars, fnVars>>
    \/ ProjectionStage /\ UNCHANGED <<cpVars, emVars, mcVars, fnVars>>
    \/ Rerun /\ UNCHANGED <<cpVars, mcVars, fnVars>>

Spec == Init /\ [][Next]_vars

\* ------------------------------------------ compute_projection called alone
ProjInitials == {-1000 * Euro, -Cent, 0, 4, 100 * Euro + 3, 1000 * Euro}
ProjMonthlies == {-Euro, 0, 3, 50 * Euro}
ProjReturns == {-100, 0, 75, 130}

CpCallAny ==
    \E initial \in ProjInitials, monthly \in ProjMonthlies,
       annual_return \in ProjReturns, years \in 0..MaxYears :
        CpCall(initial, monthly, annual_return, years)

InitProjection == CpIdle /\ EmIdle /\ McIdle /\ RunInit

NextProjection ==
    \/ CpCallAny /\ UNCHANGED <<emVars, mcVars, runVars, fnVars>>
    \/ CpStep /\ UNCHANGED <<emVars, mcVars, runVars, fnVars>>
    \/ CpReturn /\ UNCHANGED <<emVars, mcVars, runVars, fnVars>>

SpecProjection == InitProjection /\ [][NextProjection]_vars

\* --------------------------------------------- estimate_months called alone
EstInitials == {-50 * Euro, 100 * Euro, 1000 * Euro}
EstTargets == {100 * Euro, 1000 * Euro + 4}
EstMonthlies == {0, 10 * Euro}
EstReturns == {-100, 0, 75}

EmCallAny ==
    /\ em_pc = "idle"
    /\ \E initial \in EstInitials, target \in EstTargets,
          monthly \in EstMonthlies, annual_return \in EstReturns :
           EmCall(initial, target, monthly, annual_return)

InitEstimate == CpIdle /\ EmIdle /\ McIdle /\ RunInit

NextEstimate ==
    \/ EmCallAny /\ UNCHANGED <<cpVars, mcVars, runVars, fnVars>>
    \/ EmStep /\ UNCHANGED <<cpVars, mcVars, runVars, fnVars>>
    \/ EmReturn /\ UNCHANGED <<cpVars, mcVars, runVars, fnVars>>

SpecEstimate == InitEstimate /\ [][NextEstimate]_vars

\* The loop is sequential code: a step that can be taken is taken.
FairSpecEstimate ==
    SpecEstimate /\ WF_vars(EmStep /\ UNCHANGED <<cpVars, mcVars, runVars, fnVars>>)
                 /\ WF_vars(EmReturn /\ UNCHANGED <<cpVars, mcVars, runVars, fnVars>>)

\* ------------------------------------------- estimate_months called twice
\* A second call with the initial value and the annual return of the first
\* and any target and contribution.
EmCallAgain ==
    /\ em_pc = "done"
    /\ em_prev = NoResult
    /\ \E target \in EstTargets, monthly \in EstMonthlies :
           EmCall(em_args.initial, target, monthly, em_args.annual_return)

NextEstimateTwice ==
    \/ EmCallAny /\ UNCHANGED <<cpVars, mcVars, runVars, fnVars>>
    \/ EmCallAgain /\ UNCHANGED <<cpVars, mcVars, runVars, fnVars>>
    \/ EmStep /\ UNCHANGED <<cpVars, mcVars, runVars, fnVars>>
    \/ EmReturn /\ UNCHANGED <<cpVars, mcVars, runVars, fnVars>>

SpecEstimateTwice == InitEstimate /\ [][NextEstimateTwice]_vars

\* ------------------------- estimate_months and compute_projection together
InvInitials == {100 * Euro, 100 * Euro + 50 * Cent, 101 * Euro}
InvMonthlies == {0, 10 * Euro}
InvReturns == {0, 70, 75}

\* Targets: the value the projection holds after its first month, and a
\* round amount a few months away.
InvTargets(initial, monthly, annual_return) ==
    {CpNext(initial, MonthlyRate(annual_return), monthly), initial + 5 * Euro}

\* m = estimate_months(initial, target, monthly, annual_return)
EmCallInverse ==
    /\ em_pc = "idle"
    /\ \E initial \in InvInitials, monthly \in InvMonthlies,
          annual_return \in InvReturns :
           \E target \in InvTargets(initial, monthly, annual_return) :
               EmCall(initial, target, monthly, annual_return)

\* then compute_projection(initial, monthly, annual_return, years) with the
\* same arguments.
CpCallSame ==
    /\ em_pc = "done"
    /\ CpCall(em_args.initial, em_args.monthly, em_args.annual_return, MaxYears)

NextInverse ==
    \/ EmCallInverse /\ UNCHANGED <<cpVars, mcVars, runVars, fnVars>>
    \/ EmStep /\ UNCHANGED <<cpVars, mcVars, runVars, fnVars>>
    \/ EmReturn /\ UNCHANGED <<cpVars, mcVars, runVars, fnVars>>
    \/ CpCallSame /\ UNCHANGED <<emVars, mcVars, runVars, fnVars>>
    \/ CpStep /\ UNCHANGED <<emVars, mcVars, runVars, fnVars>>
    \/ CpReturn /\ UNCHANGED <<emVars, mcVars, runVars, fnVars>>

SpecInverse == InitEstimate /\ [][NextInverse]_vars

\* -------------------------------------------- fetch_etf_prices called alone
\* etf_data with the tickers and FX tickers of S taken out.
Strip(etf, S) ==
    [i \in 1..Len(etf) |->
        [etf[i] EXCEPT !.ticker = IF @ \in S THEN None ELSE @,
                       !.fx_ticker = IF @ \in S THEN None ELSE @]]

EtfDicts == {Strip(EtfData, S) : S \in SUBSET AllTickers(EtfData)}

\* results, issues = fetch_etf_prices(etf_dict)
FetchCall(etf, download) ==
    /\ fe_ret = NoResult
    /\ fe_args' = [etf_dict |-> etf, download |-> download]
    /\ fe_ret' = FetchEtfPrices(etf, download)
    /\ UNCHANGED mc_stats

\* The script goes on to its next run.
FetchDone ==
    /\ fe_ret # NoResult
    /\ fe_args' = NoArgs
    /\ fe_ret' = NoResult
    /\ UNCHANGED mc_stats

NextFetch ==
    \/ (\E etf \in EtfDicts, download \in Downloads : FetchCall(etf, download))
            /\ UNCHANGED <<cpVars, emVars, mcVars, runVars>>
    \/ FetchDone /\ UNCHANGED <<cpVars, emVars, mcVars, runVars>>

SpecFetch == Init /\ [][NextFetch]_vars

\* --------------------------------------------- run_monte_carlo called alone
MaxMcYears == 1
MaxSims == 2

McMoney == {[initial |-> -100 * Euro, monthly |-> 50 * Euro],
            [initial |-> 1000 * Euro, monthly |-> -300 * Euro],
            [initial |-> 1000 * Euro, monthly |-> 50 * Euro]}
McSeeds == {1, 42}

McArgSets ==
    {[initial |-> a.initial, monthly |-> a.monthly, annual_return |-> 75,
      annual_vol |-> 2000, years |-> y, sims |-> n, seed |-> sd] :
        a \in McMoney, y \in 0..MaxMcYears, n \in -1..MaxSims, sd \in McSeeds}

InitMonteCarlo == CpIdle /\ EmIdle /\ McIdle /\ RunInit

NextMonteCarlo ==
    \/ (\E args \in McArgSets : McCall(args)) /\ UNCHANGED <<cpVars, emVars, runVars, fnVars>>
    \/ (\E args \in McArgSets : McCallRaises(args)) /\ UNCHANGED <<cpVars, emVars, runVars, fnVars>>
    \/ (\E args \in McArgSets : McCallCached(args)) /\ UNCHANGED <<cpVars, emVars, runVars, fnVars>>
    \/ McExpire /\ UNCHANGED <<cpVars, emVars, runVars, fnVars>>
    \/ McStep /\ UNCHANGED <<cpVars, emVars, runVars, fnVars>>
    \/ McReturn /\ UNCHANGED <<cpVars, emVars, runVars, fnVars>>

SpecMonteCarlo == InitMonteCarlo /\ [][NextMonteCarlo]_vars

\* ---------------------------------------------------- the Monte Carlo stage
\* d * num / den in floating point, num/den a fraction of 0 .. 1.
FMulFrac(d, num, den) ==
    Fl((d \div den) * num + ((d % den) * num) \div den, ((d % den) * num) % den, den)

RECURSIVE SortedInsert(_, _)
SortedInsert(x, xs) ==
    IF xs = <<>> THEN <<x>>
    ELSE IF x <= Head(xs) THEN <<x>> \o xs
    ELSE <<Head(xs)>> \o SortedInsert(x, Tail(xs))

\* Mutant of Sorted: the values stay in the order of the paths.
SortedNot(xs) == xs

\* The values in ascending order, as np.percentile arranges them.
RECURSIVE Sorted(_)
Sorted(xs) ==
    IF xs = <<>> THEN <<>> ELSE SortedInsert(Head(xs), Sorted(Tail(xs)))

\* numpy's _lerp(a, b, t), t = tn/100: a + (b - a) * t, and
\* b - (b - a) * (1 - t) where t >= 0.5.
Lerp(a, b, tn) ==
    LET diff_b_a == FAdd(b, -a)
    IN  IF 2 * tn < 100 THEN FAdd(a, FMulFrac(diff_b_a, tn, 100))
        ELSE FAdd(b, -FMulFrac(diff_b_a, 100 - tn, 100))

\* np.percentile(xs, q), method "linear": the value at the virtual index
\* (n - 1) * q / 100 of the sorted values, interpolated between its
\* neighbours.
Percentile(xs, q) ==
    LET arr  == Sorted(xs)
        n    == Len(arr)
        h    == (n - 1) * q
        lo   == h \div 100
        next == IF lo + 2 <= n THEN lo + 2 ELSE n
    IN  Lerp(arr[lo + 1], arr[next], h % 100)

\* Mutant of Prob: the values below the threshold are counted.
ProbBelow(final, threshold) ==
    LET n    == Len(final)
        c    == Cardinality({p \in 1..n : final[p] < threshold})
        mean == Fl((c * RateDen) \div n, (c * RateDen) % n, n)
    IN  Fl(mean * 100, 0, 1)

\* (final_values >= threshold).mean() * 100, in units of 1/RateDen percent.
Prob(final, threshold) ==
    LET n    == Len(final)
        c    == Cardinality({p \in 1..n : final[p] >= threshold})
        mean == Fl((c * RateDen) \div n, (c * RateDen) % n, n)
    IN  Fl(mean * 100, 0, 1)

\* scenarios[:, t]
Column(scen, t) == [p \in 1..Len(scen) |-> scen[p][t]]

\* np.percentile(scenarios, q, axis=0)
PercentileLine(scen, q) ==
    [t \in 1..Len(scen[1]) |-> Percentile(Column(scen, t), q)]

\* The stage after run_monte_carlo has returned: percentiles, prob_100k,
\* prob_500k, prob_1m, the band p25 .. p75 and the lines of 10, 50 and 90.
McSummary ==
    /\ mc_pc = "done"
    /\ mc_stats = NoResult
    /\ LET scenarios    == mc_ret.scenarios
           final_values == mc_ret.final
       IN  mc_stats' =
             [percentiles |-> [q \in {10, 25, 50, 75, 90} |->
                                  Percentile(final_values, q)],
              prob_100k |-> Prob(final_values, Eur(100000, 0)),
              prob_500k |-> Prob(final_values, Eur(500000, 0)),
              prob_1m   |-> Prob(final_values, Eur(1000000, 0)),
              p25   |-> PercentileLine(scenarios, 25),
              p75   |-> PercentileLine(scenarios, 75),
              pline |-> [q \in {10, 50, 90} |-> PercentileLine(scenarios, q)]]
    /\ UNCHANGED <<fe_args, fe_ret>>

\* The stage's call: run_monte_carlo(net_worth, contrib_totale, rendimento,
\* volatilita) with the horizon, the number of paths and the seed of the
\* defaults, scaled down.
SummaryNetWorths == {Eur(95000, 0), Eur(480000, 0), Eur(990000, 0)}

SummaryArgSets ==
    {[initial |-> nw, monthly |-> 600 * Euro, annual_return |-> 75,
      annual_vol |-> 140, years |-> MaxMcYears, sims |-> n, seed |-> sd] :
        nw \in SummaryNetWorths, n \in 1..(MaxSims + 2), sd \in McSeeds}

McCallOnce(args) == mc_pc = "idle" /\ McCall(args)

NextSummary ==
    \/ (\E args \in SummaryArgSets : McCallOnce(args))
            /\ UNCHANGED <<cpVars, emVars, runVars, fnVars>>
    \/ McStep /\ UNCHANGED <<cpVars, emVars, runVars, fnVars>>
    \/ McReturn /\ UNCHANGED <<cpVars, emVars, runVars, fnVars>>
    \/ McSummary /\ UNCHANGED <<cpVars, emVars, mcVars, runVars>>

SpecSummary == InitMonteCarlo /\ [][NextSummary]_vars

\* ======================================================== claims, projection
CpRunning == cp_pc \in {"loop", "done"}

NonDecreasing(vals) == \A t \in 1..(Len(vals) - 1) : vals[t + 1] >= vals[t]

\* C2 as stated: for every initial value, negative ones included, every
\* monthly contribution >= 0 and every annual return >= 0 the series of
\* compute_projection is non-decreasing.
C2_AsStated ==
    (CpRunning /\ cp_args.monthly >= 0 /\ cp_args.annual_return >= 0)
        => NonDecreasing(cp_vals)

\* C2 amended: for every initial value >= 0 that is a whole number of cents,
\* every monthly contribution >= 0 and every annual return >= 0 the series of
\* compute_projection is non-decreasing.
C2_NonDecreasing ==
    (/\ CpRunning
     /\ cp_args.initial >= 0 /\ cp_args.initial % Cent = 0
     /\ cp_args.monthly >= 0 /\ cp_args.annual_return >= 0)
        => NonDecreasing(cp_vals)

\* A finished two-year series that grew, from a non-negative initial value.
C2_Witness ==
    /\ cp_pc = "done"
    /\ cp_args.initial >= 0 /\ cp_args.initial % Cent = 0
    /\ cp_args.monthly > 0 /\ cp_args.annual_return > 0
    /\ Len(cp_vals) > 12
    /\ cp_vals[Len(cp_vals)] > cp_vals[1]

\* C9: compute_projection returns years*12 + 1 values, the first is the
\* initial value, and every later one is the previous one times (1 + r) plus
\* the contribution, rounded to the nearest cent, r being the monthly rate of
\* the annual rate.
C9_SeriesShape ==
    cp_pc = "done" =>
        LET r == MonthlyRate(cp_args.annual_return)
        IN  /\ Len(cp_vals) = cp_args.years * 12 + 1
            /\ cp_vals[1] = cp_args.initial
            /\ \A t \in 1..(Len(cp_vals) - 1) :
                LET x == FAdd(FMulRate(cp_vals[t], r), cp_args.monthly)
                    below == (x \div Cent) * Cent
                IN  \E c \in {below, below + Cent} :
                        /\ 2 * Abs(c - x) <= Cent
                        /\ cp_vals[t + 1] = ToFloat(c)

\* A finished series of more than a year whose unrounded steps are not whole
\* cents, from a negative initial value.
C9_Witness ==
    /\ cp_pc = "done"
    /\ cp_args.years >= 1
    /\ cp_args.initial < 0
    /\ Len(cp_vals) >= 13
    /\ FAdd(FMulRate(cp_vals[1], cp_r), cp_args.monthly) % Cent # 0

\* ========================================================== claims, estimate
\* C3: estimate_months terminates and returns m with 0 <= m <= 1200; it
\* returns m < 1200 only with the value after m steps >= target, so a value
\* that stays below the target (contribution 0 and rate 0 with initial <
\* target, say) returns the cap 1200.
C3_Inv ==
    /\ em_m \in 0..MaxMonths
    /\ em_pc = "done" =>
        /\ em_ret \in 0..MaxMonths
        /\ em_ret = em_m
        /\ em_ret < MaxMonths => em_v >= em_args.target
        /\ em_v < em_args.target => em_ret = MaxMonths
        /\ (/\ em_args.monthly = 0 /\ em_args.annual_return = 0
            /\ em_args.initial < em_args.target) => em_ret = MaxMonths

C3_CapAndTermination == []C3_Inv /\ ((em_pc = "loop") ~> (em_pc = "done"))

\* The cap returned with the value still below the target.
C3_Witness ==
    /\ em_pc = "done"
    /\ em_ret = MaxMonths
    /\ em_v < em_args.target

\* C10: estimate_months returns 0, with no step of the recurrence applied,
\* whenever initial >= target.
C10_ZeroWhenReached ==
    (em_pc = "done" /\ em_args.initial >= em_args.target)
        => (em_ret = 0 /\ em_m = 0 /\ em_v = ToFloat(em_args.initial))

\* A call with initial = target has returned.
C10_Witness ==
    /\ em_pc = "done"
    /\ em_args.initial = em_args.target
    /\ em_args.monthly # 0
    /\ em_ret = 0

\* C11: with the other arguments held fixed, estimate_months is non-decreasing
\* in the target and non-increasing in the monthly contribution.
C11_Monotone ==
    (/\ em_pc = "done" /\ em_prev # NoResult
     /\ em_prev.args.initial = em_args.initial
     /\ em_prev.args.annual_return = em_args.annual_return)
        => /\ em_prev.args.monthly = em_args.monthly =>
                /\ em_prev.args.target <= em_args.target => em_prev.ret <= em_ret
                /\ em_prev.args.target >= em_args.target => em_prev.ret >= em_ret
           /\ em_prev.args.target = em_args.target =>
                /\ em_prev.args.monthly <= em_args.monthly => em_prev.ret >= em_ret
                /\ em_prev.args.monthly >= em_args.monthly => em_prev.ret <= em_ret

\* A second call with a larger contribution and the same target has returned
\* fewer months than the first, both below the cap.
C11_Witness ==
    /\ em_pc = "done" /\ em_prev # NoResult
    /\ em_prev.args.target = em_args.target
    /\ em_prev.args.monthly < em_args.monthly
    /\ em_ret > 0 /\ em_ret < em_prev.ret /\ em_prev.ret < MaxMonths

\* ======================================================= claims, Monte Carlo
\* C1 as stated: in the ensemble of run_monte_carlo every value of every
\* path, month 0 included, is >= 0 whatever the initial value, the
\* contribution and the drawn returns are.
C1_AsStated ==
    mc_pc = "done" =>
        \A p \in 1..mc_args.sims : \A t \in 1..(mc_args.years * 12 + 1) :
            mc_ret.scenarios[p][t] >= 0

\* C5 as stated: run_monte_carlo called with sims < 1 or years*12 < 1 signals
\* an input error and never returns an ensemble.
C5_AsStated ==
    mc_pc = "done" => (mc_args.sims >= 1 /\ mc_args.years * 12 >= 1)

\* C6: two calls of run_monte_carlo with identical arguments return identical
\* ensembles and identical final values.
C6_Deterministic ==
    (mc_pc = "done" /\ mc_prev # NoResult /\ mc_prev.args = mc_args)
        => mc_prev.ret = mc_ret

\* The second of two calls with the same arguments ran the body again, after
\* a call with another seed, and returned paths that the draws moved.
C6_Witness ==
    /\ mc_pc = "done" /\ mc_prev # NoResult
    /\ mc_prev.args = mc_args
    /\ ~mc_cached
    /\ mc_args.sims = 2 /\ mc_args.years = 1
    /\ mc_ret.final[1] # mc_ret.final[2]

\* C12: the threshold probabilities of the final values are ordered,
\* P(final >= 100k) >= P(final >= 500k) >= P(final >= 1M), and each lies
\* between 0 and 100.
C12_ProbabilitiesOrdered ==
    mc_stats # NoResult =>
        /\ mc_stats.prob_100k >= mc_stats.prob_500k
        /\ mc_stats.prob_500k >= mc_stats.prob_1m
        /\ \A pr \in {mc_stats.prob_100k, mc_stats.prob_500k, mc_stats.prob_1m} :
              0 <= pr /\ pr <= 100 * RateDen

\* An ensemble whose final values lie on both sides of the 500k threshold.
C12_Witness ==
    /\ mc_stats # NoResult
    /\ mc_stats.prob_100k > mc_stats.prob_500k
    /\ mc_stats.prob_500k > mc_stats.prob_1m

\* C13: in every month column the percentiles across the paths are ordered
\* p10 <= p25 <= p50 <= p75 <= p90.
C13_PercentilesOrdered ==
    mc_stats # NoResult =>
        \A t \in 1..(mc_args.years * 12 + 1) :
            /\ mc_stats.pline[10][t] <= mc_stats.p25[t]
            /\ mc_stats.p25[t] <= mc_stats.pline[50][t]
            /\ mc_stats.pline[50][t] <= mc_stats.p75[t]
            /\ mc_stats.p75[t] <= mc_stats.pline[90][t]

\* Several paths whose values in the last column differ: the five
\* percentiles are apart.
C13_Witness ==
    /\ mc_stats # NoResult
    /\ mc_args.sims >= 3
    /\ LET t == mc_args.years * 12 + 1
       IN  /\ mc_stats.pline[10][t] < mc_stats.p25[t]
           /\ mc_stats.p25[t] < mc_stats.pline[50][t]
           /\ mc_stats.pline[50][t] < mc_stats.p75[t]
           /\ mc_stats.p75[t] < mc_stats.pline[90][t]

\* ======================================================= claims, report run
Computed == run_pc \in {"milestones", "estimating", "aborted"}

\* C7 as stated: the category totals of the aggregator add up to the net
\* worth exactly: liquidita + investimenti + risparmio + tfr == net_worth.
C7_AsStated ==
    Computed =>
        FAdd(FAdd(FAdd(totals.liquidita, totals.investimenti), totals.risparmio),
             totals.tfr) = totals.net_worth

\* C4 as stated: when estimate_months returns the cap because the target was
\* not reached, the milestone loop shows the milestone as not reached and
\* does not print the cap as a time remaining.
C4_AsStated ==
    (/\ run_pc = "milestones" /\ em_pc = "done" /\ Len(ms_bars) >= 1
     /\ em_ret = MaxMonths /\ em_v < em_args.target)
        => ms_bars[Len(ms_bars)].line = "not reached"

DegiroSaldo(patr) ==
    LET i == CHOOSE j \in 1..Len(patr) : patr[j].name = "Degiro" IN patr[i].saldo

\* The position has a ticker and an FX ticker and the FX rate is unavailable.
FxUnavailable(d, download) ==
    /\ d.ticker # None /\ d.fx_ticker # None
    /\ download.raised \/ ~download.close[d.fx_ticker].ok

\* C14 as stated: when a position has a market identifier and an FX
\* identifier and the FX rate is unavailable, its resolved value is its
\* backup value and a diagnostic for it is emitted.
C14_AsStated ==
    fe_ret # NoResult =>
        \A i \in 1..Len(fe_args.etf_dict) :
            LET d == fe_args.etf_dict[i]
            IN  FxUnavailable(d, fe_args.download) =>
                    /\ fe_ret.results[i].value = ToFloat(d.backup)
                    /\ \E k \in 1..Len(fe_ret.issues) :
                          fe_ret.issues[k].name \in {d.name, ""}

\* C15: on every path fetch_etf_prices returns exactly one entry per
\* position, and the entry of a position without a market identifier is its
\* backup value.
C15_CompleteAndBackup ==
    fe_ret # NoResult =>
        /\ Len(fe_ret.results) = Len(fe_args.etf_dict)
        /\ \A i \in 1..Len(fe_args.etf_dict) :
              LET d == fe_args.etf_dict[i]
              IN  /\ fe_ret.results[i].name = d.name
                  /\ d.ticker = None => fe_ret.results[i].value = ToFloat(d.backup)

\* Prices were downloaded: a position with a ticker is valued away from its
\* backup and one that lost its ticker is valued at its backup.
C15_Witness ==
    /\ fe_ret # NoResult
    /\ ~fe_args.download.raised
    /\ \E i, j \in 1..Len(fe_args.etf_dict) :
          /\ EtfData[i].ticker # None /\ fe_args.etf_dict[i].ticker = None
          /\ fe_ret.results[i].value = ToFloat(EtfData[i].backup)
          /\ fe_args.etf_dict[j].ticker # None
          /\ fe_ret.results[j].value # ToFloat(EtfData[j].backup)

\* C8: in every report run the balance of Degiro is overwritten with the sum
\* of the resolved values of all ETF positions before net worth and the
\* category totals are computed, and no other balance is written.
C8_Inv ==
    /\ run_pc # "start" =>
        /\ Len(prezzi_etf) = Len(EtfData)
        /\ DegiroSaldo(patrimonio) = SumAll(Values(prezzi_etf))
    /\ run_pc \in {"start", "loaded", "controls"} => totals = NoTotals
    /\ totals # NoTotals =>
        /\ totals.net_worth = SumAll(Saldi(patrimonio))
        /\ totals.investimenti =
             FAdd(FAdd(SumAll(Values(prezzi_etf)), Eur(50, 0)), Eur(4400, 0))

C8_OthersKept ==
    /\ Len(patrimonio') = Len(patrimonio)
    /\ \A i \in 1..Len(patrimonio) :
        patrimonio[i].name # "Degiro" => patrimonio'[i] = patrimonio[i]

C8_DegiroInjected == []C8_Inv /\ [][C8_OthersKept]_vars

\* A run that got past the calculations with priced positions.
C8_Witness ==
    /\ run_pc = "aborted"
    /\ \E i \in 1..Len(prezzi_etf) : prezzi_etf[i].value # ToFloat(EtfData[i].backup)
    /\ DegiroSaldo(patrimonio) > 0
    /\ totals.net_worth > Eur(28050, 0)

\* C16 as stated: the projection stage's call binds the horizon of 30 years
\* to the horizon parameter of compute_projection and returns its series, so
\* no stage aborts the run: a run past the milestone stage goes on through
\* the projection stage to the Monte Carlo stage.
C16_AsStated ==
    /\ run_error = None
    /\ run_pc # "aborted"
    /\ (run_pc = "milestones" /\ ms_i > Len(Milestones)) =>
            ProjectionKeyword \in CpParams

\* C17 as stated: for the same initial value, contribution >= 0 and annual
\* return >= 0, a result m < 1200 of estimate_months is the smallest month at
\* which the series of compute_projection, over a horizon of at least m
\* months, is >= target.
C17_AsStated ==
    (/\ em_pc = "done" /\ cp_pc = "done"
     /\ cp_args.initial = em_args.initial /\ cp_args.monthly = em_args.monthly
     /\ cp_args.annual_return = em_args.annual_return
     /\ em_args.monthly >= 0 /\ em_args.annual_return >= 0
     /\ em_ret < MaxMonths /\ em_ret <= cp_args.years * 12)
        => /\ cp_vals[em_ret + 1] >= em_args.target
           /\ \A t \in 1..em_ret : cp_vals[t] < em_args.target

====
